---- MODULE Spec2Model ----
(***************************************************************************)
(* A model of src/app/rbi_api.py: the link-list cache, the index file      *)
(* in_banks.json (build / load), and the endpoints /banks, /by-bank and    *)
(* /by-ifsc.  Strings are sequences of one-character strings, so that      *)
(* strip(), upper(), "in", slicing and == are computed, not assumed.       *)
(*                                                                         *)
(* Each request is a thread of control (FastAPI runs the synchronous       *)
(* endpoints in a thread pool); pc[t] is its position in the handler.      *)
(* Spec runs one request at a time; SpecConc interleaves two.              *)
(*                                                                         *)
(* SpecFun applies the functions of the program, one call at a time, to    *)
(* arguments drawn from bounded sets: call is the function and its         *)
(* arguments, res what the call has computed so far.                       *)
(***************************************************************************)
EXTENDS Integers, Sequences, FiniteSets, TLC

VARIABLES now, ticks, links_cache, file, nreq, pc, req, loc, tr, out,
          call, res

\* the state of the server: clock, link cache, index file, requests in progress
server == <<now, ticks, links_cache, file, nreq, pc, req, loc, tr, out>>

vars == <<now, ticks, links_cache, file, nreq, pc, req, loc, tr, out, call, res>>

(***************************************************************************)
(* Bounds of the model.                                                    *)
(***************************************************************************)
\* requests served in one run of Spec
MaxRequests == 2
\* requests served in one run of SpecConc
MaxConcRequests == 2
\* times the clock is seen to have advanced between two calls of time.time()
MaxTicks == 1

\* chunks, or runs of equal chunks, in the body of one download
MaxChunks == 3
\* blanks on either side of a header
MaxPad == 1
\* rows of the sheet a lookup by code searches
MaxRows == 2
\* entries of the index /banks lists
MaxEntries == 3

Threads == {1, 2}

(***************************************************************************)
(* Program constants.                                                      *)
(***************************************************************************)
MAX_DOWNLOAD_BYTES == 25 * 1024 * 1024
CACHE_TTL_SECONDS == 6 * 60 * 60

\* iter_content(chunk_size=16384): no chunk is longer
CHUNK_SIZE == 16384

\* time.time() when the process starts (any positive instant)
StartTime == 1

(***************************************************************************)
(* Strings.                                                                *)
(***************************************************************************)
LowerCase == <<"a","b","c","d","e","f","g","h","i","j","k","l","m",
               "n","o","p","q","r","s","t","u","v","w","x","y","z">>
UpperCase == <<"A","B","C","D","E","F","G","H","I","J","K","L","M",
               "N","O","P","Q","R","S","T","U","V","W","X","Y","Z">>

Whitespace == {" ", "\t", "\n"}

UpperChar(c) ==
  IF \E i \in 1..26 : LowerCase[i] = c
  THEN UpperCase[CHOOSE i \in 1..26 : LowerCase[i] = c]
  ELSE c

LowerChar(c) ==
  IF \E i \in 1..26 : UpperCase[i] = c
  THEN LowerCase[CHOOSE i \in 1..26 : UpperCase[i] = c]
  ELSE c

\* str.upper()
Upper(s) == [i \in 1..Len(s) |-> UpperChar(s[i])]

\* str.lower()
Lower(s) == [i \in 1..Len(s) |-> LowerChar(s[i])]

RECURSIVE LStrip(_)
LStrip(s) == IF s # <<>> /\ Head(s) \in Whitespace THEN LStrip(Tail(s)) ELSE s

RECURSIVE RStrip(_)
RStrip(s) ==
  IF s # <<>> /\ s[Len(s)] \in Whitespace THEN RStrip(SubSeq(s, 1, Len(s) - 1)) ELSE s

\* str.strip()
Strip(s) == RStrip(LStrip(s))

\* sub in s
Contains(s, sub) ==
  \E i \in 0..(Len(s) - Len(sub)) : SubSeq(s, i + 1, i + Len(sub)) = sub

\* s[:n]
Take(s, n) == SubSeq(s, 1, IF Len(s) < n THEN Len(s) ELSE n)

(***************************************************************************)
(* The remote site: the listing page and the spreadsheets behind its links.*)
(***************************************************************************)
F1 == [title |-> "t1", url |-> "u1.xlsx"]
F2 == [title |-> "t2", url |-> "u2.xls"]

\* What requests.get(RBI_URL) can give: a failure (transport error or HTTP
\* error status), or a page whose anchors either end in .xls/.xlsx or not.
Anchor(isXls, f) == [xls |-> isXls, file |-> f]
Pages ==
  { [up |-> FALSE, anchors |-> <<>>],
    [up |-> TRUE,  anchors |-> <<Anchor(FALSE, F1)>>],
    [up |-> TRUE,  anchors |-> <<Anchor(TRUE, F1)>>],
    [up |-> TRUE,  anchors |-> <<Anchor(TRUE, F1), Anchor(FALSE, F2), Anchor(TRUE, F2)>>] }

\* A spreadsheet cell as pandas hands it over: a string, or NaN (empty cell).
Str(s) == [t |-> "str", s |-> s]
NaN == [t |-> "nan", s |-> <<>>]

\* str(x)
CellStr(c) == IF c.t = "nan" THEN <<"n","a","n">> ELSE c.s

Sheet(cols, rows) == [cols |-> cols, rows |-> rows]

\* pd.ExcelFile(...) either raises (ok = FALSE) or exposes the sheets.
WbCorrupt == [ok |-> FALSE, sheets |-> <<>>]
WbNoSheets == [ok |-> TRUE, sheets |-> <<>>]
WbExa ==
  [ok |-> TRUE,
   sheets |-> << Sheet(<<<<"B","a","n","k"," ","N","a","m","e">>, <<" ","I","F","S","C"," ">>, <<"C","i","t","y">>>>,
                       << <<Str(<<"E","x","a"," ","B","a","n","k"," ">>), Str(<<"e","x","b","0","0","0","1","2","3","4","x">>), Str(<<"P","u","n","e">>)>>,
                          <<Str(<<"E","x","a"," ","B","a","n","k">>), Str(<<"E","X","B","0","0","0","5","5","5","5","Y">>), NaN>> >>) >>]
WbZed ==
  [ok |-> TRUE,
   sheets |-> << Sheet(<<<<"B","A","N","K">>, <<"I","f","s","c"," ","C","o","d","e">>>>,
                       << <<Str(<<"Z","e","d"," ","B","a","n","k">>), Str(<<"z","e","d">>)>> >>) >>]
WbHeadOnly ==
  [ok |-> TRUE,
   sheets |-> << Sheet(<<<<"B","a","n","k">>, <<"I","F","S","C">>>>, <<>>) >>]
WbOther ==
  [ok |-> TRUE,
   sheets |-> << Sheet(<<<<"B","r","a","n","c","h">>>>, << <<Str(<<"M","a","i","n">>)>> >>) >>]

Workbooks == {WbCorrupt, WbNoSheets, WbExa, WbZed, WbHeadOnly, WbOther}

\* What stream_download(url) can do: raise a requests exception, raise
\* HTTPException(413) past MAX_DOWNLOAD_BYTES, or return the bytes of a workbook.
Downloads ==
  { [err |-> "transport", wb |-> WbCorrupt], [err |-> "toolarge", wb |-> WbCorrupt] }
  \cup { [err |-> "none", wb |-> w] : w \in Workbooks }

(***************************************************************************)
(* Helpers of the program.                                                 *)
(***************************************************************************)
\* None, and also the falsy empty column name
NoCol == <<>>

IFSC_TOKEN == <<"i","f","s","c">>
BANK_TOKEN == <<"b","a","n","k">>

normalize_columns(cols) == [i \in 1..Len(cols) |-> Strip(cols[i])]

find_ifsc_column(cols) ==
  LET exact == SelectSeq(cols, LAMBDA c : Lower(Strip(c)) = IFSC_TOKEN)
      fuzzy == SelectSeq(cols, LAMBDA c : Contains(Lower(Strip(c)), IFSC_TOKEN))
  IN  IF exact # <<>> THEN exact[1]
      ELSE IF fuzzy # <<>> THEN fuzzy[1] ELSE NoCol

find_bank_column(cols) ==
  LET exact == SelectSeq(cols, LAMBDA c : Lower(Strip(c)) = BANK_TOKEN)
      fuzzy == SelectSeq(cols, LAMBDA c : Contains(Lower(Strip(c)), BANK_TOKEN))
  IN  IF exact # <<>> THEN exact[1]
      ELSE IF fuzzy # <<>> THEN fuzzy[1] ELSE NoCol

\* row[col] for a row of a frame with the given columns
CellAt(cols, row, col) ==
  row[CHOOSE i \in 1..Len(cols) : cols[i] = col /\ \A j \in 1..(i - 1) : cols[j] # col]

EmptyRecord(item) ==
  [title |-> item.title, url |-> item.url, bank |-> <<>>, ifsc_prefix |-> <<>>]

(***************************************************************************)
(* Canonicalisation of a raw row into the fixed output shape.              *)
(***************************************************************************)
OUT_KEYS == <<"BANK", "IFSC", "BRANCH", "ADDRESS", "CITY1", "CITY2", "STATE", "STD CODE", "PHONE">>

\* the pairs (synonym, canonical key) of CANON_MAP
CANON_MAP ==
  << <<<<"b","a","n","k">>, "BANK">>,
     <<<<"b","a","n","k"," ","n","a","m","e">>, "BANK">>,
     <<<<"i","f","s","c">>, "IFSC">>,
     <<<<"i","f","s","c"," ","c","o","d","e">>, "IFSC">>,
     <<<<"b","r","a","n","c","h">>, "BRANCH">>,
     <<<<"b","r","a","n","c","h"," ","n","a","m","e">>, "BRANCH">>,
     <<<<"a","d","d","r","e","s","s">>, "ADDRESS">>,
     <<<<"a","d","d","r","e","s","s","1">>, "ADDRESS">>,
     <<<<"a","d","d","r","e","s","s"," ","l","i","n","e">>, "ADDRESS">>,
     <<<<"c","i","t","y">>, "CITY1">>,
     <<<<"c","i","t","y","1">>, "CITY1">>,
     <<<<"c","i","t","y"," ","1">>, "CITY1">>,
     <<<<"c","i","t","y","2">>, "CITY2">>,
     <<<<"c","i","t","y"," ","2">>, "CITY2">>,
     <<<<"c","e","n","t","r","e">>, "CITY1">>,
     <<<<"d","i","s","t","r","i","c","t">>, "CITY2">>,
     <<<<"s","t","a","t","e">>, "STATE">>,
     <<<<"s","t","d"," ","c","o","d","e">>, "STD CODE">>,
     <<<<"s","t","d">>, "STD CODE">>,
     <<<<"s","t","d","c","o","d","e">>, "STD CODE">>,
     <<<<"p","h","o","n","e">>, "PHONE">>,
     <<<<"p","h","o","n","e"," ","n","o">>, "PHONE">>,
     <<<<"p","h","o","n","e"," ","n","u","m","b","e","r">>, "PHONE">>,
     <<<<"t","e","l","e","p","h","o","n","e">>, "PHONE">>,
     <<<<"t","e","l","e","p","h","o","n","e"," ","n","o">>, "PHONE">>,
     <<<<"c","o","n","t","a","c","t">>, "PHONE">>,
     <<<<"c","o","n","t","a","c","t"," ","n","o">>, "PHONE">>,
     <<<<"m","o","b","i","l","e">>, "PHONE">> >>

InCanonMap(lk) == \E i \in 1..Len(CANON_MAP) : CANON_MAP[i][1] = lk

CanonKey(lk) == CANON_MAP[CHOOSE i \in 1..Len(CANON_MAP) : CANON_MAP[i][1] = lk][2]

Digits == {"0","1","2","3","4","5","6","7","8","9"}

AllIn(s, set) == \A i \in 1..Len(s) : s[i] \in set

RECURSIVE DropZeros(_)
DropZeros(s) == IF Len(s) > 1 /\ Head(s) = "0" THEN DropZeros(Tail(s)) ELSE s

\* position of the first "." of s, or 0
DotAt(s) ==
  IF \E i \in 1..Len(s) : s[i] = "."
  THEN CHOOSE i \in 1..Len(s) : s[i] = "." /\ \A j \in 1..(i - 1) : s[j] # "."
  ELSE 0

\* float(x) succeeds with an integer value, for the decimal literals
\* digits, digits., .digits and digits.digits (surrounding whitespace allowed)
IsIntegerFloat(s) ==
  LET z == Strip(s)
      d == DotAt(z)
      ip == IF d = 0 THEN z ELSE SubSeq(z, 1, d - 1)
      fp == IF d = 0 THEN <<>> ELSE SubSeq(z, d + 1, Len(z))
  IN  /\ ip \o fp # <<>>
      /\ AllIn(ip, Digits)
      /\ AllIn(fp, {"0"})

\* int(float(x)) for such a literal, as its decimal digits
IntOfFloat(s) ==
  LET z == Strip(s)
      d == DotAt(z)
      ip == IF d = 0 THEN z ELSE SubSeq(z, 1, d - 1)
  IN  IF ip = <<>> THEN <<"0">> ELSE DropZeros(ip)

IntVal(s) == [t |-> "int", s |-> s]

\* The second attempt (s ends with ".0") parses the same text as the first,
\* so it succeeds only where the first did: every other value is str(x).strip().
coerce_number_like(x) ==
  IF x.t = "nan" THEN Str(<<>>)
  ELSE IF x.t = "int" THEN x
  ELSE IF IsIntegerFloat(x.s) THEN IntVal(IntOfFloat(x.s))
  ELSE Str(Strip(CellStr(x)))

\* bool(x) of a cell
Truthy(x) == x.t = "nan" \/ (x.t = "int" /\ x.s # <<"0">>) \/ (x.t = "str" /\ x.s # <<>>)

\* "" if pd.isna(v) else v
NaToEmpty(v) == IF v.t = "nan" THEN Str(<<>>) ELSE v

\* tmp = {str(k).strip().lower(): v for k, v in raw.items()}: a key keeps the
\* place of its first occurrence and the value of its last.
TmpKeys(cols) ==
  LET lk(i) == Lower(Strip(cols[i]))
      first == { i \in 1..Len(cols) : \A j \in 1..(i - 1) : lk(j) # lk(i) }
      RECURSIVE ordered(_)
      ordered(i) ==
        IF i > Len(cols) THEN <<>>
        ELSE (IF i \in first THEN <<lk(i)>> ELSE <<>>) \o ordered(i + 1)
  IN  ordered(1)

TmpValue(cols, row, k) ==
  LET same == { i \in 1..Len(cols) : Lower(Strip(cols[i])) = k }
  IN  row[CHOOSE i \in same : \A j \in same : j <= i]

EmptyOut == [k \in {OUT_KEYS[i] : i \in 1..Len(OUT_KEYS)} |-> Str(<<>>)]

RECURSIVE MapCanon(_, _, _, _)
MapCanon(o, keys, cols, row) ==
  IF keys = <<>> THEN o
  ELSE LET lk == Head(keys)
           o2 == IF InCanonMap(lk)
                 THEN [o EXCEPT ![CanonKey(lk)] = NaToEmpty(TmpValue(cols, row, lk))]
                 ELSE o
       IN  MapCanon(o2, Tail(keys), cols, row)

\* to_output_row without line 136, out["IFSC"] = out["IFSC"].upper()
to_output_row_as_typed(cols, row) ==
  LET o1 == MapCanon(EmptyOut, TmpKeys(cols), cols, row)
      o2 == IF Truthy(o1["CITY1"]) /\ ~Truthy(o1["CITY2"])
            THEN [o1 EXCEPT !["CITY2"] = o1["CITY1"]] ELSE o1
      text(k) == IF o2[k].t = "nan" THEN Str(<<>>) ELSE Str(Strip(CellStr(o2[k])))
  IN  [k \in DOMAIN o2 |->
         IF k \in {"BANK", "IFSC", "BRANCH", "STATE", "ADDRESS", "CITY1", "CITY2"}
         THEN text(k)
         ELSE coerce_number_like(o2[k])]

to_output_row(cols, row) ==
  LET o1 == MapCanon(EmptyOut, TmpKeys(cols), cols, row)
      o2 == IF Truthy(o1["CITY1"]) /\ ~Truthy(o1["CITY2"])
            THEN [o1 EXCEPT !["CITY2"] = o1["CITY1"]] ELSE o1
      text(k) == IF o2[k].t = "nan" THEN Str(<<>>) ELSE Str(Strip(CellStr(o2[k])))
      o3 == [k \in DOMAIN o2 |->
               IF k \in {"BANK", "IFSC", "BRANCH", "STATE", "ADDRESS", "CITY1", "CITY2"}
               THEN text(k)
               ELSE coerce_number_like(o2[k])]
  IN  [o3 EXCEPT !["IFSC"] = Str(Upper(o3["IFSC"].s))]

\* df.fillna("").to_dict(orient="records") of the selected rows, each canonicalised
OutputRows(cols, rows) ==
  [i \in 1..Len(rows) |->
     to_output_row(cols, [j \in 1..Len(rows[i]) |-> NaToEmpty(rows[i][j])])]

(***************************************************************************)
(* The link-list cache.                                                    *)
(***************************************************************************)
\* fetch_xls_links without its "if not items: raise"
fetch_xls_links_unchecked(page) ==
  LET hits == SelectSeq(page.anchors, LAMBDA a : a.xls)
  IN  IF ~page.up THEN [raise |-> "transport", items |-> <<>>]
      ELSE [raise |-> "none", items |-> [i \in 1..Len(hits) |-> hits[i].file]]

\* fetch_xls_links() on a given answer of the site: the items, or what it raises
\* ("transport": requests' exception; "http404": HTTPException(404)).
fetch_xls_links(page) ==
  LET hits == SelectSeq(page.anchors, LAMBDA a : a.xls)
      items == [i \in 1..Len(hits) |-> hits[i].file]
  IN  IF ~page.up THEN [raise |-> "transport", items |-> <<>>]
      ELSE IF items = <<>> THEN [raise |-> "http404", items |-> <<>>]
      ELSE [raise |-> "none", items |-> items]

\* a cache that stores whatever came back, failure included
StoreDataAlways(cache, r) == [cache EXCEPT !.data = r.items]

\* line 48, _links_cache["data"] = fetch_xls_links(): nothing is assigned when
\* the call raises
StoreData(cache, r) ==
  IF r.raise # "none" THEN cache ELSE [cache EXCEPT !.data = r.items]

\* the test with >= for >
MustRefetchAtTtl(cache, n) == n - cache.ts >= CACHE_TTL_SECONDS \/ cache.data = <<>>

\* the test of get_cached_links at time n
MustRefetch(cache, n) == n - cache.ts > CACHE_TTL_SECONDS \/ cache.data = <<>>

(***************************************************************************)
(* The index and its file.                                                 *)
(***************************************************************************)
\* the prefix cut without the test of the length
IndexRecordShortPrefix(item, dl) ==
  IF dl.err # "none" \/ ~dl.wb.ok THEN EmptyRecord(item)
  ELSE IF dl.wb.sheets = <<>> THEN EmptyRecord(item)
  ELSE
    LET sh == dl.wb.sheets[1]
        cols == normalize_columns(sh.cols)
        head == Take(sh.rows, 1)
        bank_col == find_bank_column(cols)
        ifsc_col == find_ifsc_column(cols)
    IN  IF (bank_col # NoCol \/ ifsc_col # NoCol) /\ head = <<>>
        THEN EmptyRecord(item)
        ELSE
          LET bank_val == IF bank_col = NoCol THEN <<>>
                          ELSE Upper(Strip(CellStr(CellAt(cols, head[1], bank_col))))
              ifsc_val == IF ifsc_col = NoCol THEN <<>>
                          ELSE Upper(Strip(CellStr(CellAt(cols, head[1], ifsc_col))))
          IN  [title |-> item.title, url |-> item.url,
               bank |-> bank_val, ifsc_prefix |-> Take(ifsc_val, 4)]

\* one entry of the index, from what the download and the parse of the file gave
IndexRecord(item, dl) ==
  IF dl.err # "none" \/ ~dl.wb.ok THEN EmptyRecord(item)
  ELSE IF dl.wb.sheets = <<>> THEN EmptyRecord(item)
  ELSE
    LET sh == dl.wb.sheets[1]
        cols == normalize_columns(sh.cols)
        head == Take(sh.rows, 1)
        bank_col == find_bank_column(cols)
        ifsc_col == find_ifsc_column(cols)
    IN  IF (bank_col # NoCol \/ ifsc_col # NoCol) /\ head = <<>>
        THEN EmptyRecord(item)            \* head_df.iloc[0] raises IndexError
        ELSE
          LET bank_val == IF bank_col = NoCol THEN <<>>
                          ELSE Upper(Strip(CellStr(CellAt(cols, head[1], bank_col))))
              ifsc_val == IF ifsc_col = NoCol THEN <<>>
                          ELSE Upper(Strip(CellStr(CellAt(cols, head[1], ifsc_col))))
              ifsc_prefix == IF Len(ifsc_val) >= 4 THEN Take(ifsc_val, 4) ELSE <<>>
          IN  [title |-> item.title, url |-> item.url,
               bank |-> bank_val, ifsc_prefix |-> ifsc_prefix]

\* the turn of the loop ends in the except clause, or finds no sheet
ItemFails(dl) ==
  \/ dl.err # "none"
  \/ ~dl.wb.ok
  \/ dl.wb.sheets = <<>>
  \/ /\ dl.wb.sheets[1].rows = <<>>
     /\ \/ find_bank_column(normalize_columns(dl.wb.sheets[1].cols)) # NoCol
        \/ find_ifsc_column(normalize_columns(dl.wb.sheets[1].cols)) # NoCol

\* an except clause that only continues
index_append_dropping(index, item, dl) ==
  IF ItemFails(dl) THEN index ELSE Append(index, IndexRecord(item, dl))

\* one turn of the loop of build_index_file: exactly one append per item
index_append(index, item, dl) == Append(index, IndexRecord(item, dl))

\* The file in_banks.json as a sequence of written units: the opening bracket,
\* one unit per record, the closing bracket; "nul" is a hole left by a write
\* past the end of the file.
NoRec == [title |-> "", url |-> "", bank |-> <<>>, ifsc_prefix |-> <<>>]
Tok(kind, r) == [t |-> kind, r |-> r]

NoFile == [exists |-> FALSE, data |-> <<>>]
JunkFile == [exists |-> TRUE, data |-> <<Tok("nul", NoRec)>>]

\* json.dump(index, f)
Serialize(index) ==
  <<Tok("open", NoRec)>> \o [i \in 1..Len(index) |-> Tok("rec", index[i])]
    \o <<Tok("close", NoRec)>>

\* os.path.exists(INDEX_PATH) and json.load(f) does not raise
Parses(f) ==
  /\ f.exists
  /\ Len(f.data) >= 2
  /\ f.data[1].t = "open"
  /\ f.data[Len(f.data)].t = "close"
  /\ \A i \in 2..(Len(f.data) - 1) : f.data[i].t = "rec"

\* json.load(f)
ParseFile(f) == [i \in 1..(Len(f.data) - 2) |-> f.data[i + 1].r]

\* a write of one unit at offset pos (1-based) of the file
WriteAt(data, pos, tok) ==
  [i \in 1..(IF Len(data) > pos THEN Len(data) ELSE pos) |->
     IF i = pos THEN tok
     ELSE IF i <= Len(data) THEN data[i] ELSE Tok("nul", NoRec)]

\* load_index without its try/except around json.load
LoadTrustsFile(f) == ~f.exists

\* load_index(): does it have to call build_index_file()?
LoadNeedsBuild(f) == ~Parses(f)

(***************************************************************************)
(* The responses.                                                          *)
(***************************************************************************)
MSG_BANK == "No files matched the given bank."
MSG_IFSC == "No rows found for the given IFSC."
MSG_LARGE == "File too large."
MSG_LINKS == "No Excel links found on RBI page."
MSG_BANKS == "No banks found."
MSG_500 == "Internal Server Error"

Resp(status, detail, body) == [status |-> status, detail |-> detail, body |-> body]
NoResp == Resp(0, "", <<>>)

\* what the client gets when fetch_xls_links raises out of the handler
ListingFailure(raise) ==
  IF raise = "http404" THEN Resp(404, MSG_LINKS, <<>>) ELSE Resp(500, MSG_500, <<>>)

\* by_bank, the candidates of an index
BankCandidates(index, query) ==
  SelectSeq(index, LAMBDA e : Contains(Upper(e.bank), query))

\* by_ifsc, the candidates of an index
IfscCandidates(index, prefix) ==
  SelectSeq(index, LAMBDA e : e.ifsc_prefix = prefix)

\* a handler that gives up on the first miss
RebuildNever(rebuilt) == FALSE

\* "if not candidates: index = build_index_file()", done once per request
RebuildOnMiss(rebuilt) == ~rebuilt

\* entry = candidates[-1]
LastCandidate(candidates) == candidates[Len(candidates)]

\* entry = candidates[0]
FirstCandidate(candidates) == candidates[1]

\* by_bank from stream_download on: the try block and its except clauses
by_bank_fetch(dl) ==
  IF dl.err = "toolarge" THEN Resp(413, MSG_LARGE, <<>>)       \* except HTTPException: raise
  ELSE IF dl.err = "transport" THEN Resp(404, MSG_BANK, <<>>)  \* except Exception
  ELSE IF ~dl.wb.ok THEN Resp(404, MSG_BANK, <<>>)
  ELSE IF dl.wb.sheets = <<>> THEN Resp(404, MSG_BANK, <<>>)
  ELSE
    LET sh == dl.wb.sheets[1]
    IN  IF sh.rows = <<>> \/ sh.cols = <<>> THEN Resp(404, MSG_BANK, <<>>)
        ELSE Resp(200, "", OutputRows(normalize_columns(sh.cols), sh.rows))

\* by_ifsc returning the first matching row only
by_ifsc_fetch_first(dl, code) ==
  IF dl.err = "toolarge" THEN Resp(413, MSG_LARGE, <<>>)
  ELSE IF dl.err = "transport" THEN Resp(404, MSG_IFSC, <<>>)
  ELSE IF ~dl.wb.ok THEN Resp(404, MSG_IFSC, <<>>)
  ELSE IF dl.wb.sheets = <<>> THEN Resp(404, MSG_IFSC, <<>>)
  ELSE
    LET sh == dl.wb.sheets[1]
        cols == normalize_columns(sh.cols)
        col == find_ifsc_column(cols)
        hit == SelectSeq(sh.rows, LAMBDA r : Upper(CellStr(CellAt(cols, r, col))) = code)
    IN  IF sh.rows = <<>> \/ sh.cols = <<>> THEN Resp(404, MSG_IFSC, <<>>)
        ELSE IF col = NoCol THEN Resp(404, MSG_IFSC, <<>>)
        ELSE IF hit = <<>> THEN Resp(404, MSG_IFSC, <<>>)
        ELSE Resp(200, "", OutputRows(cols, Take(hit, 1)))

\* by_ifsc from stream_download on
by_ifsc_fetch(dl, code) ==
  IF dl.err = "toolarge" THEN Resp(413, MSG_LARGE, <<>>)
  ELSE IF dl.err = "transport" THEN Resp(404, MSG_IFSC, <<>>)
  ELSE IF ~dl.wb.ok THEN Resp(404, MSG_IFSC, <<>>)
  ELSE IF dl.wb.sheets = <<>> THEN Resp(404, MSG_IFSC, <<>>)
  ELSE
    LET sh == dl.wb.sheets[1]
        cols == normalize_columns(sh.cols)
        col == find_ifsc_column(cols)
        hit == SelectSeq(sh.rows, LAMBDA r : Upper(CellStr(CellAt(cols, r, col))) = code)
    IN  IF sh.rows = <<>> \/ sh.cols = <<>> THEN Resp(404, MSG_IFSC, <<>>)
        ELSE IF col = NoCol THEN Resp(404, MSG_IFSC, <<>>)
        ELSE IF hit = <<>> THEN Resp(404, MSG_IFSC, <<>>)
        ELSE Resp(200, "", OutputRows(cols, hit))

\* banks() without its "b not in seen"
RECURSIVE BankNamesRepeated(_, _)
BankNamesRepeated(index, seen) ==
  IF index = <<>> THEN <<>>
  ELSE LET b == Upper(Strip(Head(index).bank))
       IN  IF b # <<>>
           THEN <<[bank |-> b]>> \o BankNamesRepeated(Tail(index), seen \cup {b})
           ELSE BankNamesRepeated(Tail(index), seen)

\* banks(): the names of the index, each once, in order of first occurrence
RECURSIVE BankNames(_, _)
BankNames(index, seen) ==
  IF index = <<>> THEN <<>>
  ELSE LET b == Upper(Strip(Head(index).bank))
       IN  IF b # <<>> /\ b \notin seen
           THEN <<[bank |-> b]>> \o BankNames(Tail(index), seen \cup {b})
           ELSE BankNames(Tail(index), seen)

banks_response(index) ==
  LET o == BankNames(index, {})
  IN  IF o = <<>> THEN Resp(404, MSG_BANKS, <<>>) ELSE Resp(200, "", o)

(***************************************************************************)
(* The requests.                                                           *)
(***************************************************************************)
BankQueries == { <<>>, <<" "," ">>, <<" ","e","x","a"," ">>, <<"x","y","z">> }
IfscQueries == { <<>>, <<" ","e","x","b","0","0","0","1","2","3"," ">>, <<" ","e","x","b","0","0","0","1","2","3","4","x"," ">>, <<"E","X","B","0","0","0","1","2","3","4","Q">>, <<"Q","Q","Q","Q","0","0","0","0","0","0","0">> }

Requests ==
  { [kind |-> "banks", q |-> <<>>] }
  \cup { [kind |-> "by_bank", q |-> q] : q \in BankQueries }
  \cup { [kind |-> "by_ifsc", q |-> q] : q \in IfscQueries }

\* the locals of a handler and of the functions it calls
Loc0 ==
  [q |-> <<>>, index |-> <<>>, rebuilt |-> FALSE, entry |-> NoRec,
   t0 |-> 0, fetched |-> <<>>, items |-> <<>>, i |-> 0, acc |-> <<>>, bad |-> <<>>,
   wpos |-> 0, ret |-> ""]

\* what a request has done so far: calls of build_index_file, the answers of the
\* listing page to its fetches, the urls downloaded, the downloads of the final step, what
\* load_index read, and the shared state as it was when the request came in
Tr0 ==
  [builds |-> 0, lists |-> <<>>, dls |-> <<>>, final |-> <<>>, reads |-> <<>>, loaded |-> FALSE,
   file0 |-> NoFile, cache0 |-> [ts |-> 0, data |-> <<>>]]

\* no function is being applied
NoCall == [fn |-> "none"]
NoRes == [st |-> "none"]

\* indexes an earlier run of the program can have left in in_banks.json
DlExa == [err |-> "none", wb |-> WbExa]
DlZed == [err |-> "none", wb |-> WbZed]
StoredIndexes ==
  { <<IndexRecord(F1, DlExa), IndexRecord(F2, DlExa)>>,
    <<EmptyRecord(F1), IndexRecord(F2, DlZed)>> }

Init ==
  /\ now = StartTime
  /\ ticks = 0
  /\ links_cache = [ts |-> 0, data |-> <<>>]
  /\ file \in {NoFile, JunkFile} \cup { [exists |-> TRUE, data |-> Serialize(x)] : x \in StoredIndexes }
  /\ nreq = 0
  /\ pc = [t \in Threads |-> "idle"]
  /\ req = [t \in Threads |-> [kind |-> "banks", q |-> <<>>]]
  /\ loc = [t \in Threads |-> Loc0]
  /\ tr = [t \in Threads |-> Tr0]
  /\ out = [t \in Threads |-> NoResp]
  /\ call = NoCall
  /\ res = NoRes

\* a request comes in
Begin(t, max, requests) ==
  /\ pc[t] \in {"idle", "done"}
  /\ nreq < max
  /\ \E r \in requests : req' = [req EXCEPT ![t] = r]
  /\ nreq' = nreq + 1
  /\ pc' = [pc EXCEPT ![t] = "entry"]
  /\ loc' = [loc EXCEPT ![t] = Loc0]
  /\ tr' = [tr EXCEPT ![t] = [Tr0 EXCEPT !.file0 = file, !.cache0 = links_cache]]
  /\ out' = [out EXCEPT ![t] = NoResp]
  /\ UNCHANGED <<now, ticks, links_cache, file, call, res>>

\* the handler returns or raises: its locals are gone
Done(t, resp) ==
  /\ pc' = [pc EXCEPT ![t] = "done"]
  /\ out' = [out EXCEPT ![t] = resp]
  /\ loc' = [loc EXCEPT ![t] = Loc0]

\* by_bank: query = (bank or "").strip().upper(); is it refused at once?
by_bank_rejects(q) == Upper(Strip(q)) = <<>>

\* the length test on the untrimmed parameter
by_ifsc_rejects_untrimmed(q) == Len(Upper(q)) < 11

\* by_ifsc: code = (ifsc or "").strip().upper(); is it refused at once?
by_ifsc_rejects(q) == Len(Upper(Strip(q))) < 11

\* by_bank, lines 214-216
ByBankEntry(t) ==
  /\ pc[t] = "entry" /\ req[t].kind = "by_bank"
  /\ IF by_bank_rejects(req[t].q)
     THEN Done(t, Resp(404, MSG_BANK, <<>>))
     ELSE /\ pc' = [pc EXCEPT ![t] = "load"]
          /\ loc' = [loc EXCEPT ![t].q = Upper(Strip(req[t].q))]
          /\ UNCHANGED out
  /\ UNCHANGED <<now, ticks, links_cache, file, nreq, req, tr, call, res>>

\* by_ifsc, lines 255-258
ByIfscEntry(t) ==
  /\ pc[t] = "entry" /\ req[t].kind = "by_ifsc"
  /\ IF by_ifsc_rejects(req[t].q)
     THEN Done(t, Resp(404, MSG_IFSC, <<>>))
     ELSE /\ pc' = [pc EXCEPT ![t] = "load"]
          /\ loc' = [loc EXCEPT ![t].q = Upper(Strip(req[t].q))]
          /\ UNCHANGED out
  /\ UNCHANGED <<now, ticks, links_cache, file, nreq, req, tr, call, res>>

\* banks has nothing to check
BanksEntry(t) ==
  /\ pc[t] = "entry" /\ req[t].kind = "banks"
  /\ pc' = [pc EXCEPT ![t] = "load"]
  /\ UNCHANGED <<now, ticks, links_cache, file, nreq, req, loc, tr, out, call, res>>

\* load_index(): return the parsed file, or call build_index_file()
LoadIndex(t) ==
  /\ pc[t] = "load"
  /\ IF LoadNeedsBuild(file)
     THEN /\ pc' = [pc EXCEPT ![t] = "build"]
          /\ loc' = [loc EXCEPT ![t].ret = "resolve"]
          /\ tr' = [tr EXCEPT ![t].reads = Append(@, file), ![t].builds = @ + 1]
     ELSE /\ pc' = [pc EXCEPT ![t] = "resolve"]
          /\ loc' = [loc EXCEPT ![t].index = ParseFile(file)]
          /\ tr' = [tr EXCEPT ![t].reads = Append(@, file), ![t].loaded = TRUE]
  /\ UNCHANGED <<now, ticks, links_cache, file, nreq, req, out, call, res>>

\* time.time() as get_cached_links reads it: the clock has moved on or not
ClockSteps == {0, CACHE_TTL_SECONDS, CACHE_TTL_SECONDS + 1}

\* get_cached_links(), lines 46-47 and, on a hit, line 50
GetCachedLinks(t, steps) ==
  /\ pc[t] = "build"
  /\ \E d \in steps :
       /\ d > 0 => ticks < MaxTicks
       /\ now' = now + d
       /\ ticks' = IF d > 0 THEN ticks + 1 ELSE ticks
       /\ IF MustRefetch(links_cache, now')
          THEN /\ pc' = [pc EXCEPT ![t] = "fetch_links"]
               /\ loc' = [loc EXCEPT ![t].t0 = now']
          ELSE /\ pc' = [pc EXCEPT ![t] = "build_item"]
               /\ loc' = [loc EXCEPT ![t].t0 = now', ![t].items = links_cache.data,
                                     ![t].i = 1, ![t].acc = <<>>, ![t].bad = <<>>]
  /\ UNCHANGED <<links_cache, file, nreq, req, tr, out, call, res>>

\* a build that opens in_banks.json for writing before it has the items
FetchLinksFileOpened(t, pages) ==
  /\ pc[t] = "fetch_links"
  /\ \E page \in pages :
       LET r == fetch_xls_links(page)
       IN  /\ links_cache' = StoreData(links_cache, r)
           /\ tr' = [tr EXCEPT ![t].lists = Append(@, page)]
           /\ IF r.raise # "none"
              THEN Done(t, ListingFailure(r.raise))
              ELSE /\ pc' = [pc EXCEPT ![t] = "store_ts"]
                   /\ loc' = [loc EXCEPT ![t].fetched = r.items]
                   /\ UNCHANGED out
  /\ file' = [exists |-> TRUE, data |-> <<>>]
  /\ UNCHANGED <<now, ticks, nreq, req, call, res>>

\* get_cached_links(), line 48: _links_cache["data"] = fetch_xls_links()
FetchLinks(t, pages) ==
  /\ pc[t] = "fetch_links"
  /\ \E page \in pages :
       LET r == fetch_xls_links(page)
       IN  /\ links_cache' = StoreData(links_cache, r)
           /\ tr' = [tr EXCEPT ![t].lists = Append(@, page)]
           /\ IF r.raise # "none"
              THEN Done(t, ListingFailure(r.raise))
              ELSE /\ pc' = [pc EXCEPT ![t] = "store_ts"]
                   /\ loc' = [loc EXCEPT ![t].fetched = r.items]
                   /\ UNCHANGED out
  /\ UNCHANGED <<now, ticks, file, nreq, req, call, res>>

\* get_cached_links(), lines 49-50
StoreTs(t) ==
  /\ pc[t] = "store_ts"
  /\ links_cache' = [links_cache EXCEPT !.ts = loc[t].t0]
  /\ pc' = [pc EXCEPT ![t] = "build_item"]
  /\ loc' = [loc EXCEPT ![t].items = links_cache.data, ![t].i = 1, ![t].acc = <<>>,
                        ![t].bad = <<>>]
  /\ UNCHANGED <<now, ticks, file, nreq, req, tr, out, call, res>>

\* build_index_file(), one turn of the loop (lines 148-167)
BuildItem(t, downloads) ==
  /\ pc[t] = "build_item"
  /\ loc[t].i <= Len(loc[t].items)
  /\ \E dl \in downloads :
       loc' = [loc EXCEPT ![t].acc = index_append(@, loc[t].items[loc[t].i], dl),
                          ![t].bad = Append(@, ItemFails(dl)),
                          ![t].i = @ + 1]
  /\ tr' = [tr EXCEPT ![t].dls = Append(@, loc[t].items[loc[t].i].url)]
  /\ UNCHANGED <<now, ticks, links_cache, file, nreq, pc, req, out, call, res>>

\* build_index_file(), line 168: open(INDEX_PATH, "w") truncates the file
WriteOpen(t) ==
  /\ pc[t] = "build_item"
  /\ loc[t].i > Len(loc[t].items)
  /\ file' = [exists |-> TRUE, data |-> <<>>]
  /\ pc' = [pc EXCEPT ![t] = "write"]
  /\ loc' = [loc EXCEPT ![t].wpos = 0]
  /\ UNCHANGED <<now, ticks, links_cache, nreq, req, tr, out, call, res>>

\* build_index_file(), line 169: json.dump writes the text piece by piece,
\* each piece at this writer's own offset
WriteChunk(t) ==
  /\ pc[t] = "write"
  /\ loc[t].wpos < Len(Serialize(loc[t].acc))
  /\ file' = [file EXCEPT !.data = WriteAt(@, loc[t].wpos + 1, Serialize(loc[t].acc)[loc[t].wpos + 1])]
  /\ loc' = [loc EXCEPT ![t].wpos = @ + 1]
  /\ UNCHANGED <<now, ticks, links_cache, nreq, pc, req, tr, out, call, res>>

\* build_index_file(), line 170: return index (to load_index or to the handler)
BuildReturn(t) ==
  /\ pc[t] = "write"
  /\ loc[t].wpos = Len(Serialize(loc[t].acc))
  /\ pc' = [pc EXCEPT ![t] = loc[t].ret]
  /\ loc' = [loc EXCEPT ![t].index = loc[t].acc, ![t].fetched = <<>>, ![t].items = <<>>,
                        ![t].i = 0, ![t].acc = <<>>, ![t].bad = <<>>, ![t].wpos = 0,
                        ![t].ret = ""]
  /\ UNCHANGED <<now, ticks, links_cache, file, nreq, req, tr, out, call, res>>

\* the candidates of the handler of thread t in its index
Candidates(t) ==
  IF req[t].kind = "by_bank" THEN BankCandidates(loc[t].index, loc[t].q)
  ELSE IfscCandidates(loc[t].index, Take(loc[t].q, 4))

\* by_bank lines 219-227, by_ifsc lines 261-268: pick the entry, rebuilding once
Resolve(t) ==
  /\ pc[t] = "resolve" /\ req[t].kind \in {"by_bank", "by_ifsc"}
  /\ IF Candidates(t) # <<>>
     THEN /\ pc' = [pc EXCEPT ![t] = "fetch"]
          /\ loc' = [loc EXCEPT ![t].entry = FirstCandidate(Candidates(t))]
          /\ UNCHANGED <<tr, out>>
     ELSE IF RebuildOnMiss(loc[t].rebuilt)
     THEN /\ pc' = [pc EXCEPT ![t] = "build"]
          /\ loc' = [loc EXCEPT ![t].rebuilt = TRUE, ![t].ret = "resolve"]
          /\ tr' = [tr EXCEPT ![t].builds = @ + 1]
          /\ UNCHANGED out
     ELSE /\ Done(t, Resp(404, IF req[t].kind = "by_bank" THEN MSG_BANK ELSE MSG_IFSC, <<>>))
          /\ UNCHANGED tr
  /\ UNCHANGED <<now, ticks, links_cache, file, nreq, req, call, res>>

\* by_bank lines 228-245, by_ifsc lines 269-292: the one download and its parse
Fetch(t) ==
  /\ pc[t] = "fetch"
  /\ \E dl \in Downloads :
       /\ Done(t, IF req[t].kind = "by_bank" THEN by_bank_fetch(dl)
                  ELSE by_ifsc_fetch(dl, loc[t].q))
       /\ tr' = [tr EXCEPT ![t].dls = Append(@, loc[t].entry.url),
                           ![t].final = Append(@, [url |-> loc[t].entry.url, err |-> dl.err])]
  /\ UNCHANGED <<now, ticks, links_cache, file, nreq, req, call, res>>

\* banks(), lines 192-201
Banks(t) ==
  /\ pc[t] = "resolve" /\ req[t].kind = "banks"
  /\ Done(t, banks_response(loc[t].index))
  /\ UNCHANGED <<now, ticks, links_cache, file, nreq, req, tr, call, res>>

\* the steps of build_index_file and of what it calls
BuildStep(t, steps, pages, downloads) ==
  \/ GetCachedLinks(t, steps) \/ FetchLinks(t, pages) \/ StoreTs(t)
  \/ BuildItem(t, downloads) \/ WriteOpen(t) \/ WriteChunk(t) \/ BuildReturn(t)

Step(t) ==
  \/ ByBankEntry(t) \/ ByIfscEntry(t) \/ BanksEntry(t)
  \/ LoadIndex(t)
  \/ BuildStep(t, ClockSteps, Pages, Downloads)
  \/ Resolve(t) \/ Fetch(t) \/ Banks(t)

\* one request at a time
Next == Begin(1, MaxRequests, Requests) \/ Step(1)

Spec == Init /\ [][Next]_vars

\* Two requests at once, each in its own thread of the pool: /banks, which is
\* load_index() and, behind it, build_index_file() and get_cached_links().
ConcRequests == { [kind |-> "banks", q |-> <<>>] }
ConcClockSteps == {0, CACHE_TTL_SECONDS + 1}
ConcPages == { p \in Pages : ~p.up \/ Len(p.anchors) = 3 }
ConcDownloads == { [err |-> "transport", wb |-> WbCorrupt], DlExa }

StepConc(t) ==
  \/ BanksEntry(t)
  \/ LoadIndex(t)
  \/ BuildStep(t, ConcClockSteps, ConcPages, ConcDownloads)
  \/ Banks(t)

NextConc == \E t \in Threads : Begin(t, MaxConcRequests, ConcRequests) \/ StepConc(t)

SpecConc == Init /\ [][NextConc]_vars

(***************************************************************************)
(* stream_download, chunk by chunk.                                        *)
(***************************************************************************)
\* n chunks in a row, each of the same size
Seg(n, size) == [n |-> n, size |-> size]

\* the full chunks that fit under the cap
FullRun == MAX_DOWNLOAD_BYTES \div CHUNK_SIZE

\* a keep-alive chunk (empty), one byte, a full chunk, and runs of full chunks
\* that end one chunk under the cap and exactly at it
Segments ==
  { Seg(1, 0), Seg(1, 1), Seg(1, CHUNK_SIZE),
    Seg(FullRun - 1, CHUNK_SIZE), Seg(FullRun, CHUNK_SIZE) }

\* What iter_content can deliver: chunks, then the end of the body or an error
\* of the connection.
Streams ==
  { [fn |-> "stream_download", segs |-> segs, fails |-> f] :
      segs \in UNION { [1..k -> Segments] : k \in 0..MaxChunks }, f \in BOOLEAN }

\* the test with >= for >
TooLargeAtCap(total) == total >= MAX_DOWNLOAD_BYTES

\* line 63: if total > MAX_DOWNLOAD_BYTES
TooLarge(total) == total > MAX_DOWNLOAD_BYTES

\* lines 54-57: the request is sent, buf and total are fresh
StreamOpen ==
  /\ call.fn = "stream_download" /\ res.st = "none"
  /\ res' = [st |-> "reading", k |-> 0, read |-> 0, total |-> 0, buffered |-> 0,
             before |-> 0]
  /\ UNCHANGED <<server, call>>

\* lines 58-64, the turns of the loop over one segment of the body: an empty
\* chunk is skipped; any other is written to buf and counted, and the turn
\* whose count passes the test of line 63 raises and ends the loop.
StreamChunks ==
  /\ call.fn = "stream_download" /\ res.st = "reading"
  /\ res.k < Len(call.segs)
  /\ LET seg == call.segs[res.k + 1]
         crossing == { j \in 1..seg.n : TooLarge(res.total + j * seg.size) }
         turns == IF crossing = {} THEN seg.n
                  ELSE CHOOSE j \in crossing : \A i \in crossing : j <= i
     IN  res' = IF seg.size = 0
                THEN [res EXCEPT !.k = @ + 1, !.read = @ + seg.n]
                ELSE [st |-> IF crossing = {} THEN "reading" ELSE "toolarge",
                      k |-> res.k + 1,
                      read |-> res.read + turns,
                      total |-> res.total + turns * seg.size,
                      buffered |-> res.buffered + turns * seg.size,
                      before |-> res.total + (turns - 1) * seg.size]
  /\ UNCHANGED <<server, call>>

\* line 65, return buf.getvalue(), or the exception iter_content raises
StreamEnd ==
  /\ call.fn = "stream_download" /\ res.st = "reading"
  /\ res.k = Len(call.segs)
  /\ res' = [res EXCEPT !.st = IF call.fails THEN "transport" ELSE "returned"]
  /\ UNCHANGED <<server, call>>

(***************************************************************************)
(* The functions of the program, applied to arguments.                     *)
(***************************************************************************)
\* a workbook of one sheet
Wb(cols, rows) == [ok |-> TRUE, sheets |-> <<Sheet(cols, rows)>>]

\* Header rows for the first sheet: the code column alone, after a name column,
\* after a column that only contains "ifsc", and sheets without a code column.
HeadLayouts ==
  { << <<"I","F","S","C">> >>,
    << <<"B","a","n","k">>, <<"I","f","s","c"," ","C","o","d","e">> >>,
    << <<"O","l","d"," ","i","f","s","c">>, <<" ","i","f","s","c"," ">> >>,
    << <<"B","r","a","n","c","h">> >>,
    << <<"B","A","N","K">> >> }

\* cells of a first row: short, padded, long, blank, empty (NaN) and numeric
HeadCells ==
  { Str(<<"z","e","d">>), Str(<<" ","a","b","c","d"," ">>), Str(<<"a","b","c","d","e">>),
    Str(<<" ","a","b"," ">>), Str(<<" "," "," "," "," ">>), NaN,
    IntVal(<<"1","2","3","4">>) }

\* what build_index_file can get for an item: the downloads of the lookups, and
\* one-row sheets of every layout
HeadDownloads ==
  Downloads \cup
  { [err |-> "none", wb |-> Wb(cols, <<row>>)] :
      cols \in HeadLayouts, row \in UNION { [1..n -> HeadCells] : n \in 1..2 } }

IndexCalls ==
  { [fn |-> "index_record", item |-> item, dl |-> dl] :
      item \in {F1, F2},
      dl \in { d \in HeadDownloads :
                 d.err = "none" /\ d.wb.sheets # <<>> =>
                   \A i \in 1..Len(d.wb.sheets[1].rows) :
                     Len(d.wb.sheets[1].rows[i]) = Len(d.wb.sheets[1].cols) } }

\* build_index_file, one turn of its loop (lines 148-167)
ApplyIndexRecord ==
  /\ call.fn = "index_record" /\ res.st = "none"
  /\ res' = [st |-> "done", val |-> IndexRecord(call.item, call.dl)]
  /\ UNCHANGED <<server, call>>

RECURSIVE Blanks(_)
Blanks(n) == IF n = 0 THEN <<>> ELSE <<" ">> \o Blanks(n - 1)

\* a header as sheets spell it: lower or upper case, blanks around it
HeaderForms(name) ==
  { Blanks(n) \o h \o Blanks(n) : h \in {name, Upper(name)}, n \in 0..MaxPad }

\* values of a cell of a record of df.fillna(""): texts, the empty text, numbers
RowValues ==
  { Str(<<"P","u","n","e">>), Str(<<" ","x"," ">>), Str(<<>>), Str(<<" "," ">>),
    IntVal(<<"5">>), IntVal(<<"0">>), Str(<<"1","2",".","0">>),
    Str(<<"a","b","c","1","2","3","4","5","6","7","d">>) }

REMARKS == <<"R","e","m","a","r","k","s">>

\* records with one header of CANON_MAP, alone or after a header that is not in it
SynonymRows ==
  UNION { { [fn |-> "to_output_row", kind |-> "synonym", syn |-> i, at |-> 1,
             cols |-> <<h>>, row |-> <<v>>] :
              h \in HeaderForms(CANON_MAP[i][1]), v \in RowValues }
          \cup
          { [fn |-> "to_output_row", kind |-> "synonym", syn |-> i, at |-> 2,
             cols |-> <<REMARKS, h>>, row |-> <<Str(<<"o","k">>), v>>] :
              h \in HeaderForms(CANON_MAP[i][1]), v \in RowValues } :
          i \in 1..Len(CANON_MAP) }

CityLayouts ==
  { << <<"C","i","t","y">> >>,
    << <<"C","i","t","y">>, <<"C","i","t","y","2">> >>,
    << <<"D","i","s","t","r","i","c","t">>, <<"C","e","n","t","r","e">> >> }

CityValues ==
  { Str(<<"P","u","n","e">>), Str(<<" ","G","o","a"," ">>), Str(<<>>), Str(<<" "," ">>) }

\* records with one or both of the locality columns
CityRows ==
  { [fn |-> "to_output_row", kind |-> "city", syn |-> 0, at |-> 0,
     cols |-> cols, row |-> row] :
      cols \in CityLayouts, row \in UNION { [1..n -> CityValues] : n \in 1..2 } }

RowCalls == SynonymRows \cup { c \in CityRows : Len(c.cols) = Len(c.row) }

\* to_output_row(rec) for a record of the sheet
ApplyToOutputRow ==
  /\ call.fn = "to_output_row" /\ res.st = "none"
  /\ res' = [st |-> "done", val |-> to_output_row(call.cols, call.row)]
  /\ UNCHANGED <<server, call>>

\* Sheets for a lookup by code: where the code column is, and what the other
\* column holds. The code column is headed "IFSC"; or by a header that contains
\* "ifsc" and is, or is not, in CANON_MAP; or there are two such headers; or none.
LookupLayouts ==
  { [cols |-> << <<"I","F","S","C">> >>, at |-> 1, other |-> NaN],
    [cols |-> << <<"B","a","n","k">>, <<"I","F","S","C"," ","N","o">> >>, at |-> 2,
     other |-> Str(<<"E","x","a"," ","B","a","n","k">>)],
    [cols |-> << <<"I","f","s","c"," ","C","o","d","e">>, <<"C","i","t","y">> >>, at |-> 1,
     other |-> Str(<<"P","u","n","e">>)],
    [cols |-> << <<"I","F","S","C">>, <<"I","f","s","c"," ","C","o","d","e">> >>, at |-> 1,
     other |-> Str(<<"O","L","D","0","0","0","0","0","0","0","A">>)],
    [cols |-> << <<"B","r","a","n","c","h">> >>, at |-> 1, other |-> NaN] }

\* cells of the code column: a code as queried, in lower case, followed by a
\* blank, another code, an empty cell
CodeCells ==
  { Str(<<"E","X","B","0","0","0","1","2","3","4","X">>),
    Str(<<"e","x","b","0","0","0","1","2","3","4","x">>),
    Str(<<"E","X","B","0","0","0","1","2","3","4","X"," ">>),
    Str(<<"E","X","B","0","0","0","5","5","5","5","Y">>),
    NaN }

LookupRow(layout, c) ==
  [j \in 1..Len(layout.cols) |-> IF j = layout.at THEN c ELSE layout.other]

LookupSheets ==
  { Wb(layout.cols, [i \in 1..Len(cells) |-> LookupRow(layout, cells[i])]) :
      layout \in LookupLayouts,
      cells \in UNION { [1..n -> CodeCells] : n \in 0..MaxRows } }

\* code = (ifsc or "").strip().upper(), of 11 characters or more
Codes ==
  { <<"E","X","B","0","0","0","1","2","3","4","X">>,
    <<"E","X","B","0","0","0","5","5","5","5","Y">>,
    <<"Q","Q","Q","Q","0","0","0","0","0","0","0">> }

LookupCalls ==
  { [fn |-> "by_ifsc_fetch", dl |-> dl, code |-> code] :
      dl \in { [err |-> "none", wb |-> w] : w \in LookupSheets \cup {WbCorrupt, WbNoSheets} }
             \cup { [err |-> e, wb |-> WbCorrupt] : e \in {"transport", "toolarge"} },
      code \in Codes }

\* by_ifsc, lines 269-292
ApplyByIfscFetch ==
  /\ call.fn = "by_ifsc_fetch" /\ res.st = "none"
  /\ res' = [st |-> "done", val |-> by_ifsc_fetch(call.dl, call.code)]
  /\ UNCHANGED <<server, call>>

\* the "bank" of an entry: as build_index_file writes it (empty, or trimmed and in
\* upper case), and as an in_banks.json written by other hands can hold it
EntryBanks ==
  { <<>>, <<"E","X","A"," ","B","A","N","K">>, <<"Z","E","D"," ","B","A","N","K">>,
    <<" ","e","x","a"," ","b","a","n","k"," ">> }

BanksCalls ==
  { [fn |-> "banks", index |-> index] :
      index \in UNION { [1..n -> { [EmptyRecord(F1) EXCEPT !.bank = b] : b \in EntryBanks }] :
                          n \in 0..MaxEntries } }

\* banks(), lines 193-201
ApplyBanks ==
  /\ call.fn = "banks" /\ res.st = "none"
  /\ res' = [st |-> "done", val |-> banks_response(call.index)]
  /\ UNCHANGED <<server, call>>

Calls == Streams \cup IndexCalls \cup RowCalls \cup LookupCalls \cup BanksCalls

InitFun ==
  /\ now = StartTime
  /\ ticks = 0
  /\ links_cache = [ts |-> 0, data |-> <<>>]
  /\ file = NoFile
  /\ nreq = 0
  /\ pc = [t \in Threads |-> "idle"]
  /\ req = [t \in Threads |-> [kind |-> "banks", q |-> <<>>]]
  /\ loc = [t \in Threads |-> Loc0]
  /\ tr = [t \in Threads |-> Tr0]
  /\ out = [t \in Threads |-> NoResp]
  /\ call \in Calls
  /\ res = NoRes

NextFun ==
  \/ StreamOpen \/ StreamChunks \/ StreamEnd
  \/ ApplyIndexRecord
  \/ ApplyToOutputRow
  \/ ApplyByIfscFetch
  \/ ApplyBanks

SpecFun == InitFun /\ [][NextFun]_vars

(***************************************************************************)
(* The claims.                                                             *)
(***************************************************************************)
Lookup(t) == req[t].kind \in {"by_bank", "by_ifsc"}

\* the flow's own not-found message
FlowMsg(t) == IF req[t].kind = "by_bank" THEN MSG_BANK ELSE MSG_IFSC

NoMatch(t) == out[t] = Resp(404, FlowMsg(t), <<>>)

\* an empty or blank bank query, a code of trimmed length under 11
BadQuery(r) ==
  \/ r.kind = "by_bank" /\ Strip(r.q) = <<>>
  \/ r.kind = "by_ifsc" /\ Len(Strip(r.q)) < 11

\* the records of an index that match the query of a lookup
Matching(index, r) ==
  IF r.kind = "by_bank"
  THEN SelectSeq(index, LAMBDA e : Contains(Upper(e.bank), Upper(Strip(r.q))))
  ELSE SelectSeq(index, LAMBDA e : e.ifsc_prefix = SubSeq(Upper(Strip(r.q)), 1, 4))

\* C1: once a lookup has resolved an index record, every failure of the final
\* single-file step ends the request with the flow's NoMatch (404) and nothing
\* else, and the file is downloaded once.
C1_FinalStepCollapsesToNoMatch ==
  \A t \in Threads :
    (pc[t] = "done" /\ Lookup(t) /\ tr[t].final # <<>>) =>
      /\ Len(tr[t].final) = 1
      /\ out[t].status = 200 \/ NoMatch(t)

\* a lookup with a well-formed query that ended NoMatch before any final download
ResolutionMiss(t) ==
  /\ pc[t] = "done" /\ Lookup(t) /\ ~BadQuery(req[t])
  /\ tr[t].final = <<>>
  /\ NoMatch(t)

\* C2 (as claimed): a lookup that no index record matches performs exactly one
\* build before it fails with NoMatch, whatever the persisted index was.
C2_ExactlyOneBuild ==
  \A t \in Threads : ResolutionMiss(t) => tr[t].builds = 1

\* C2 (amended): such a lookup performs exactly one build when the persisted index
\* was there and parsed, and exactly two (load's build, then the rebuild on the
\* miss) when it was missing or corrupt; never none, never three.
C2_OneRebuildAfterLoad ==
  \A t \in Threads :
    ResolutionMiss(t) => tr[t].builds = (IF Parses(tr[t].file0) THEN 1 ELSE 2)

C2_Witness ==
  /\ ResolutionMiss(1) /\ tr[1].file0 = NoFile /\ tr[1].builds = 2
  /\ req[1].kind = "by_bank"

\* C3: a blank bank query and a code shorter than 11 after trimming fail with
\* NoMatch at once: no listing fetch, no download, no load or build of the index,
\* and the link cache and the index file are as they were.
C3_RejectTouchesNothing ==
  \A t \in Threads :
    (pc[t] \notin {"idle", "entry"} /\ BadQuery(req[t])) =>
      /\ pc[t] = "done"
      /\ NoMatch(t)
      /\ tr[t].builds = 0 /\ tr[t].lists = <<>> /\ tr[t].dls = <<>>
      /\ tr[t].reads = <<>> /\ ~tr[t].loaded
      /\ file = tr[t].file0 /\ links_cache = tr[t].cache0

C3_Witness ==
  /\ pc[1] = "done" /\ req[1].kind = "by_ifsc"
  /\ Len(req[1].q) >= 11 /\ Len(Strip(req[1].q)) < 11
  /\ NoMatch(1)
  /\ file.exists

\* C4: a build that got N candidates returns and persists N records, record i with
\* the title and url of candidate i; a candidate whose download, parse or sheet
\* access fails has its record, with empty bank and empty ifsc_prefix.
C4_BuildTotal ==
  \A t \in Threads :
    LET l == loc[t] IN
    /\ pc[t] \in {"build_item", "write"} =>
         /\ Len(l.acc) = (IF pc[t] = "build_item" THEN l.i - 1 ELSE Len(l.items))
         /\ \A k \in 1..Len(l.acc) :
              /\ l.acc[k].title = l.items[k].title
              /\ l.acc[k].url = l.items[k].url
              /\ l.bad[k] => l.acc[k].bank = <<>> /\ l.acc[k].ifsc_prefix = <<>>
    /\ (pc[t] = "write" /\ l.wpos = Len(l.items) + 2) =>
         Parses(file) /\ ParseFile(file) = l.acc
    /\ (pc[t] = "resolve" /\ tr[t].builds > 0) =>
         /\ Parses(file) /\ ParseFile(file) = l.index
         /\ Len(l.index) = Len(links_cache.data)
         /\ \A k \in 1..Len(l.index) :
              /\ l.index[k].title = links_cache.data[k].title
              /\ l.index[k].url = links_cache.data[k].url

C4_Witness ==
  /\ pc[1] = "write" /\ loc[1].wpos = 4
  /\ Len(loc[1].items) = 2
  /\ loc[1].bad = <<TRUE, FALSE>>
  /\ loc[1].acc[2].bank # <<>>

\* C5: when the loaded index has a record matching the query, the lookup rebuilds
\* nothing, fetches no listing, downloads one file, the url of the first matching
\* record, and leaves the index file and the link cache as they were.
C5_HitDownloadsFirstMatchOnly ==
  \A t \in Threads :
    (/\ pc[t] = "done" /\ Lookup(t) /\ ~BadQuery(req[t])
     /\ Parses(tr[t].file0)
     /\ Matching(ParseFile(tr[t].file0), req[t]) # <<>>) =>
      /\ tr[t].builds = 0 /\ tr[t].lists = <<>>
      /\ tr[t].dls = <<Matching(ParseFile(tr[t].file0), req[t])[1].url>>
      /\ file = tr[t].file0 /\ links_cache = tr[t].cache0

C5_Witness ==
  /\ pc[1] = "done" /\ req[1].kind = "by_ifsc" /\ ~BadQuery(req[1])
  /\ Parses(tr[1].file0)
  /\ Len(Matching(ParseFile(tr[1].file0), req[1])) = 2
  /\ tr[1].dls = <<F1.url>>
  /\ out[1].status = 200

\* the listing page gave no candidate: unreachable, or no link to a spreadsheet
PageFails(page) == ~page.up \/ \A i \in 1..Len(page.anchors) : ~page.anchors[i].xls

\* the spreadsheets a page links to, in page order
Linked(page) ==
  LET n == Len(page.anchors)
      RECURSIVE from(_)
      from(i) == IF i > n THEN <<>>
                 ELSE (IF page.anchors[i].xls THEN <<page.anchors[i].file>> ELSE <<>>)
                      \o from(i + 1)
  IN  from(1)

\* thread t fetches the listing page in this step
Lists(t) == Len(tr'[t].lists) = Len(tr[t].lists) + 1

\* C6: get_cached_links fetches the listing if and only if, at the call, the
\* entries are empty or now - ts > TTL; otherwise it returns the cached entries,
\* fetches nothing and leaves the cache alone. After a successful refetch it
\* returns the list just fetched.
C6_FetchIffStale ==
  [][\A t \in Threads :
       /\ (pc[t] = "build" /\ pc'[t] # "build") =>
            /\ (pc'[t] = "fetch_links") <=>
                 (links_cache.data = <<>> \/ now' - links_cache.ts > 6 * 60 * 60)
            /\ pc'[t] # "fetch_links" =>
                 /\ pc'[t] = "build_item"
                 /\ loc'[t].items = links_cache.data
                 /\ links_cache' = links_cache
            /\ ~Lists(t)
       /\ Lists(t) <=> (pc[t] = "fetch_links" /\ pc'[t] # "fetch_links")
       /\ (pc[t] = "store_ts" /\ pc'[t] # "store_ts") =>
            /\ loc'[t].items = Linked(tr[t].lists[Len(tr[t].lists)])
            /\ links_cache'.data = Linked(tr[t].lists[Len(tr[t].lists)])
            /\ links_cache'.ts = now
     ]_vars

\* a call that found entries exactly TTL old and fetched nothing
C6_Witness ==
  /\ pc[1] = "build_item"
  /\ links_cache.data # <<>>
  /\ now - links_cache.ts = 6 * 60 * 60
  /\ loc[1].t0 = now
  /\ loc[1].items = links_cache.data
  /\ tr[1].lists = <<>>

\* C7: when the listing fails during a refetch, the cache keeps its timestamp and
\* its entries, and the failure reaches the caller (here: ends the request).
C7_FailedRefetchKeepsCache ==
  [][\A t \in Threads :
       (Lists(t) /\ PageFails(tr'[t].lists[Len(tr'[t].lists)])) =>
         /\ links_cache' = links_cache
         /\ pc'[t] = "done"
         /\ out'[t] \in {Resp(404, MSG_LINKS, <<>>), Resp(500, MSG_500, <<>>)}
     ]_vars

\* a stale, filled cache that survived a failed refetch
C7_Witness ==
  /\ pc[1] = "done" /\ out[1] = Resp(404, MSG_LINKS, <<>>)
  /\ links_cache.data # <<>>
  /\ now - links_cache.ts > 6 * 60 * 60

\* C8: the entries are empty only as long as no fetch has succeeded: a fetch that
\* succeeds leaves them non-empty, and non-empty entries never become empty.
C8_EntriesNeverEmptied ==
  [][/\ links_cache.data # <<>> => links_cache'.data # <<>>
     /\ \A t \in Threads :
          (Lists(t) /\ pc'[t] # "done") => links_cache'.data # <<>>
    ]_vars

\* a filled cache after a later fetch that failed with a transport error
C8_Witness ==
  /\ pc[1] = "done" /\ out[1] = Resp(500, MSG_500, <<>>)
  /\ Len(tr[1].lists) = 1 /\ ~tr[1].lists[1].up
  /\ links_cache.data # <<>>

\* load_index has returned to the handler of t, which has not rebuilt since
Loaded(t) == pc[t] = "resolve" /\ ~loc[t].rebuilt

\* C9: load returns the persisted index, with no build and no network call, when the
\* file exists and parses; when it is missing or does not parse, load calls build
\* once, returns what build returns (or raises what build raises, never the parse
\* error), and the file then holds that result.
C9_LoadOrBuildOnce ==
  \A t \in Threads :
    /\ (Loaded(t) /\ Parses(tr[t].file0)) =>
         /\ tr[t].builds = 0 /\ tr[t].lists = <<>> /\ tr[t].dls = <<>>
         /\ loc[t].index = ParseFile(tr[t].file0)
         /\ file = tr[t].file0
    /\ (Loaded(t) /\ ~Parses(tr[t].file0)) =>
         /\ tr[t].builds = 1
         /\ Len(tr[t].dls) = Len(loc[t].index)
         /\ Parses(file) /\ ParseFile(file) = loc[t].index
    /\ (tr[t].reads # <<>> /\ ~Parses(tr[t].file0)) =>
         /\ tr[t].builds >= 1 /\ ~tr[t].loaded
         /\ (/\ pc[t] = "done" /\ tr[t].builds = 1 /\ tr[t].lists # <<>>
             /\ PageFails(tr[t].lists[Len(tr[t].lists)])) =>
              out[t] \in {Resp(404, MSG_LINKS, <<>>), Resp(500, MSG_500, <<>>)}

C9_Witness ==
  /\ Loaded(1) /\ tr[1].file0 = JunkFile
  /\ tr[1].builds = 1
  /\ Len(loc[1].index) = 2
  /\ ParseFile(file) = loc[1].index

\* a file that is whole: absent, the unreadable file the program started with, or a
\* complete JSON text
Whole(f) == f = NoFile \/ f = JunkFile \/ Parses(f)

Writing(t) == pc[t] = "write"

\* C10: the index file is replaced atomically: every read observes a whole file,
\* never an empty or partly written one, and when no build is writing the file is
\* whole.
C10_IndexReplacedAtomically ==
  /\ \A t \in Threads : \A k \in 1..Len(tr[t].reads) : Whole(tr[t].reads[k])
  /\ (\A t \in Threads : ~Writing(t)) => Whole(file)

\* the entries were put there by a fetch, the timestamp by none: line 48 has run,
\* line 49 has not
Unpaired(cache) == cache.data # <<>> /\ cache.ts = 0

\* a call of get_cached_links is about to read the cache (lines 46-47)
Observes(t) == pc[t] = "build"

\* C11: the timestamp and the entries of the link cache are replaced together: no
\* call of get_cached_links, under any interleaving, finds entries of one fetch
\* with a timestamp that is not that fetch's.
C11_CacheReplacedAtomically ==
  \A t \in Threads : Observes(t) => ~Unpaired(links_cache)

\* C12: when the listing page fails in a build (unreachable, or no link to a
\* spreadsheet), the request ends with a not-found answer (404) in both cases, and
\* the listing is not fetched again in that request.
C12_ListingFailureIsNotFound ==
  \A t \in Threads :
    \A k \in 1..Len(tr[t].lists) :
      PageFails(tr[t].lists[k]) =>
        /\ k = Len(tr[t].lists)
        /\ pc[t] = "done"
        /\ out[t].status = 404

RECURSIVE StreamBytes(_)
\* the bytes of a whole body
StreamBytes(segs) ==
  IF segs = <<>> THEN 0 ELSE Head(segs).n * Head(segs).size + StreamBytes(Tail(segs))

\* C18: stream_download returns the bytes only if the bytes received are at most
\* MAX_DOWNLOAD_BYTES, and then all of them; it fails with 413 at the chunk that
\* takes the count over the cap, having read nothing after it, so that the
\* buffer never holds more than the cap plus one chunk.
C18_DownloadBounded ==
  call.fn = "stream_download" /\ res.st # "none" =>
    /\ res.buffered <= MAX_DOWNLOAD_BYTES + CHUNK_SIZE
    /\ res.buffered = res.total
    /\ res.st = "reading" => res.total <= MAX_DOWNLOAD_BYTES
    /\ res.st = "returned" =>
         /\ res.total <= MAX_DOWNLOAD_BYTES
         /\ res.total = StreamBytes(call.segs)
    /\ res.st = "toolarge" =>
         /\ res.before <= MAX_DOWNLOAD_BYTES
         /\ res.total > MAX_DOWNLOAD_BYTES
         /\ res.total - res.before <= CHUNK_SIZE
    /\ StreamBytes(call.segs) <= MAX_DOWNLOAD_BYTES => res.st # "toolarge"

\* a body cut off one full chunk past the cap, with more of it unread
C18_Witness ==
  /\ call.fn = "stream_download" /\ res.st = "toolarge"
  /\ res.before = MAX_DOWNLOAD_BYTES
  /\ res.buffered = MAX_DOWNLOAD_BYTES + CHUNK_SIZE
  /\ res.k < Len(call.segs)

\* the first sheet of a download that gave a readable workbook with a sheet
Readable(dl) == dl.err = "none" /\ dl.wb.ok /\ dl.wb.sheets # <<>>

\* role-matching finds a code column (a name column) among the headers
HasCodeColumn(cols) == \E i \in 1..Len(cols) : Contains(Lower(Strip(cols[i])), IFSC_TOKEN)
HasNameColumn(cols) == \E i \in 1..Len(cols) : Contains(Lower(Strip(cols[i])), BANK_TOKEN)

\* the trimmed, upper-cased text of the first row's cell in the code column
FirstRowCode(sh) ==
  LET cols == normalize_columns(sh.cols)
  IN  Upper(Strip(CellStr(CellAt(cols, sh.rows[1], find_ifsc_column(cols)))))

\* C13: the ifsc_prefix of a record of the index is empty or has exactly 4
\* characters; it is non-empty only if the trimmed, upper-cased code of the first
\* row has at least 4 characters, and is then its first 4; without a code column
\* the prefix is empty, without a name column the bank is empty.
C13_PrefixEmptyOrFour ==
  call.fn = "index_record" /\ res.st = "done" =>
    LET r == res.val
        dl == call.dl
        cols == dl.wb.sheets[1].cols
        withRow == Readable(dl) /\ dl.wb.sheets[1].rows # <<>>
    IN  /\ r.title = call.item.title /\ r.url = call.item.url
        /\ Len(r.ifsc_prefix) \in {0, 4}
        /\ r.ifsc_prefix # <<>> =>
             /\ withRow /\ HasCodeColumn(cols)
             /\ Len(FirstRowCode(dl.wb.sheets[1])) >= 4
        /\ (withRow /\ HasCodeColumn(cols) /\ Len(FirstRowCode(dl.wb.sheets[1])) >= 4) =>
             r.ifsc_prefix = SubSeq(FirstRowCode(dl.wb.sheets[1]), 1, 4)
        /\ (Readable(dl) /\ ~HasCodeColumn(cols)) => r.ifsc_prefix = <<>>
        /\ (Readable(dl) /\ ~HasNameColumn(cols)) => r.bank = <<>>
        /\ ~Readable(dl) => r.ifsc_prefix = <<>> /\ r.bank = <<>>

\* a code of three characters in a detected code column: the prefix is empty
C13_Witness ==
  /\ call.fn = "index_record" /\ res.st = "done"
  /\ Readable(call.dl) /\ call.dl.wb.sheets[1].rows # <<>>
  /\ HasCodeColumn(call.dl.wb.sheets[1].cols)
  /\ Len(FirstRowCode(call.dl.wb.sheets[1])) = 3
  /\ res.val.ifsc_prefix = <<>>
  /\ res.val.bank # <<>>

\* the fields of a record once its headers are mapped (lines 125-129), before the
\* locality rule
Mapped(c) == MapCanon(EmptyOut, TmpKeys(c.cols), c.cols, c.row)

\* the text of a value, trimmed
Text(v) == Strip(CellStr(v))

\* C14: when only CITY1 is populated, CITY2 being absent, empty or blank, the
\* output row has CITY2 equal to CITY1.
C14_LocalityFallback ==
  (call.fn = "to_output_row" /\ call.kind = "city" /\ res.st = "done") =>
    ((Text(Mapped(call)["CITY1"]) # <<>> /\ Text(Mapped(call)["CITY2"]) = <<>>) =>
       res.val["CITY2"] = res.val["CITY1"])

\* the form a value takes in a field of the output row
Canonical(field, v) ==
  IF field \in {"STD CODE", "PHONE"} THEN coerce_number_like(v)
  ELSE IF field = "IFSC" THEN Str(Upper(Text(v)))
  ELSE Str(Text(v))

SynonymRow == call.fn = "to_output_row" /\ call.kind = "synonym" /\ res.st = "done"

\* C15 (as claimed): a synonym of CANON_MAP, in any case and with blanks around
\* it, as the only mapped header of a record, puts its value in the field
\* CANON_MAP gives it; the eight other fields stay "".
C15_OnlyTheMappedField ==
  SynonymRow =>
    LET field == CANON_MAP[call.syn][2]
    IN  /\ res.val[field] = Canonical(field, call.row[call.at])
        /\ \A k \in DOMAIN res.val \ {field} : res.val[k] = Str(<<>>)

\* C15 (amended): the value goes to the field CANON_MAP gives; every other field
\* stays "", except CITY2 for a synonym of CITY1, which gets what CITY1 gets
\* when the value is truthy.
C15_MappedFieldAndLocalityCopy ==
  SynonymRow =>
    LET field == CANON_MAP[call.syn][2]
        v == call.row[call.at]
    IN  /\ res.val[field] = Canonical(field, v)
        /\ \A k \in DOMAIN res.val \ {field} :
             res.val[k] = IF field = "CITY1" /\ k = "CITY2" /\ Truthy(v)
                          THEN res.val["CITY1"] ELSE Str(<<>>)

\* "CENTRE" with blanks around it, after an unmapped header: CITY1 and CITY2
C15_Witness ==
  /\ SynonymRow
  /\ CANON_MAP[call.syn] = << <<"c","e","n","t","r","e">>, "CITY1" >>
  /\ call.at = 2
  /\ call.cols[2] = <<" ","C","E","N","T","R","E"," ">>
  /\ call.row[2] = Str(<<" ","x"," ">>)
  /\ res.val["CITY1"] = Str(<<"x">>) /\ res.val["CITY2"] = Str(<<"x">>)
  /\ res.val["BANK"] = Str(<<>>)

\* a lookup by code has searched the first sheet of a readable workbook
Searched == call.fn = "by_ifsc_fetch" /\ res.st = "done" /\ Readable(call.dl)

\* the rows of the sheet whose code cell, upper-cased, is the code asked for
MatchingRows(sh, code) ==
  LET cols == normalize_columns(sh.cols)
      col == find_ifsc_column(cols)
  IN  IF col = NoCol THEN {}
      ELSE { i \in 1..Len(sh.rows) : Upper(CellStr(CellAt(cols, sh.rows[i], col))) = code }

\* the k-th element of a set of row numbers
Nth(set, k) == CHOOSE i \in set : Cardinality({ j \in set : j < i }) = k - 1

\* C16: by_ifsc returns one output row for each row of the first sheet whose
\* upper-cased code cell equals the query (trimmed, upper-cased), duplicates
\* included, in sheet order, and for no other row; with no code column or no such
\* row it fails with NoMatch; it never returns an empty list.
C16_ExactlyTheMatchingRows ==
  Searched =>
    LET sh == call.dl.wb.sheets[1]
        cols == normalize_columns(sh.cols)
        m == MatchingRows(sh, call.code)
    IN  /\ m = {} => res.val = Resp(404, MSG_IFSC, <<>>)
        /\ m # {} =>
             /\ res.val.status = 200
             /\ Len(res.val.body) = Cardinality(m)
             /\ \A k \in 1..Len(res.val.body) :
                  res.val.body[k] =
                    to_output_row(cols, [j \in 1..Len(cols) |-> NaToEmpty(sh.rows[Nth(m, k)][j])])
        /\ res.val.status = 200 => res.val.body # <<>>

\* two rows with the same code, one in lower case: both come back, in order
C16_Witness ==
  /\ Searched
  /\ Len(call.dl.wb.sheets[1].cols) = 2
  /\ MatchingRows(call.dl.wb.sheets[1], call.code) = {1, 2}
  /\ call.dl.wb.sheets[1].rows[1] # call.dl.wb.sheets[1].rows[2]
  /\ Len(res.val.body) = 2
  /\ res.val.body[1]["CITY1"] = Str(<<"P","u","n","e">>)

\* C19: every output row by_ifsc returns has the code asked for in its IFSC
\* field, whatever header made the column the code column.
C19_RowsCarryTheCode ==
  (Searched /\ res.val.status = 200) =>
    \A k \in 1..Len(res.val.body) : res.val.body[k]["IFSC"] = Str(call.code)

\* the name of entry i of an index, trimmed and in upper case
EntityName(index, i) == Upper(Strip(index[i].bank))

\* the entries that bring a name not seen before
FirstOccurrences(index) ==
  { i \in 1..Len(index) :
      /\ EntityName(index, i) # <<>>
      /\ \A j \in 1..(i - 1) : EntityName(index, j) # EntityName(index, i) }

\* C17: /banks returns the non-empty names of the index, trimmed and in upper
\* case, each once, in the order of their first occurrence; it fails with 404
\* exactly when no entry of the index has a non-empty name.
C17_NamesOnceInOrder ==
  (call.fn = "banks" /\ res.st = "done") =>
    LET first == FirstOccurrences(call.index)
    IN  /\ res.val.status = 404 <=> first = {}
        /\ first = {} => res.val = Resp(404, MSG_BANKS, <<>>)
        /\ first # {} =>
             /\ res.val.status = 200
             /\ Len(res.val.body) = Cardinality(first)
             /\ \A k \in 1..Len(res.val.body) :
                  res.val.body[k] = [bank |-> EntityName(call.index, Nth(first, k))]

\* an index with one name in two spellings, after another name
C17_Witness ==
  /\ call.fn = "banks" /\ res.st = "done"
  /\ Len(call.index) = 3
  /\ call.index[1].bank = <<"Z","E","D"," ","B","A","N","K">>
  /\ call.index[2].bank = <<" ","e","x","a"," ","b","a","n","k"," ">>
  /\ call.index[3].bank = <<"E","X","A"," ","B","A","N","K">>
  /\ res.val.body = << [bank |-> <<"Z","E","D"," ","B","A","N","K">>],
                       [bank |-> <<"E","X","A"," ","B","A","N","K">>] >>

\* the request of thread t has ended in a build whose listing failed
ListingFailed(t) ==
  /\ pc[t] = "done"
  /\ tr[t].lists # <<>>
  /\ PageFails(tr[t].lists[Len(tr[t].lists)])

\* C20: a build whose listing fails leaves in_banks.json as it was before the
\* build: no step of get_cached_links touches the file, and a request whose
\* only build failed this way ends with the file it began with.
C20_FailedListingKeepsFile ==
  /\ [](\A t \in Threads : (ListingFailed(t) /\ tr[t].builds = 1) => file = tr[t].file0)
  /\ [][\A t \in Threads :
          (pc[t] \in {"build", "fetch_links"} /\ pc'[t] # pc[t]) => file' = file]_vars

\* a rebuild on a miss that failed on an unreachable listing page, over an index
\* file that is still whole
C20_Witness ==
  /\ ListingFailed(1) /\ tr[1].builds = 1
  /\ req[1].kind = "by_bank"
  /\ ~tr[1].lists[1].up
  /\ Parses(tr[1].file0) /\ ParseFile(file) = ParseFile(tr[1].file0)
  /\ Len(ParseFile(file)) = 2

====
